---- MODULE Spec2Model ----
(***************************************************************************)
(* Model of s3indexbuilder.py: one invocation of the index builder against *)
(* an S3 bucket (list, split, complete the directory set, delete stale     *)
(* listings, write new/changed listings, invalidate the cache), optionally *)
(* followed by a second invocation on the bucket the first one left.       *)
(*                                                                         *)
(* Strings are sequences of characters.  The characters are ".", "/" and   *)
(* "a", plus the token "index.html" which stands for that ten-character    *)
(* word and only ever occurs as a whole path component.                    *)
(***************************************************************************)
EXTENDS Integers, Sequences, FiniteSets, TLC

\* ------------------------------------------------------------------ bounds
\* most directory components in front of a key's base name
MaxDepth == 3
\* most objects in the bucket when the first run starts
MaxObjects == 3
\* most records the store returns per list_objects_v2 call
PageSize == 1

\* ------------------------------------------------------------- characters
IDX == "index.html"
SEP == "/"
QUOTE == "\""

\* code point of the first character of a token (ordinary string ordering)
Ord(c) ==
  CASE c = "." -> 46
    [] c = "/" -> 47
    [] c = "a" -> 97
    [] c = IDX -> 105

\* Python's str < str on character sequences
StrLess(s, t) ==
  \E i \in 1..(Len(s) + 1) :
    /\ i <= Len(t)
    /\ \A j \in 1..(i - 1) : s[j] = t[j]
    /\ \/ i = Len(s) + 1
       \/ Ord(s[i]) < Ord(t[i])

StrLeq(s, t) == s = t \/ StrLess(s, t)

\* str.startswith, which is how the store matches the Prefix parameter
StartsWith(s, p) == Len(p) <= Len(s) /\ SubSeq(s, 1, Len(p)) = p

\* str.rstrip(c): drop every trailing c
RECURSIVE RStrip(_, _)
RStrip(s, c) ==
  IF s # <<>> /\ s[Len(s)] = c THEN RStrip(SubSeq(s, 1, Len(s) - 1), c) ELSE s

\* str.strip(c): drop every leading and every trailing c
RECURSIVE LStrip(_, _)
LStrip(s, c) ==
  IF s # <<>> /\ s[1] = c THEN LStrip(Tail(s), c) ELSE s

Strip(s, c) == LStrip(RStrip(s, c), c)

\* str.rfind('/') + 1: the length of the part up to and including the last '/'
RFindSep(p) ==
  IF \E i \in 1..Len(p) : p[i] = SEP
  THEN CHOOSE i \in 1..Len(p) : p[i] = SEP /\ \A j \in (i + 1)..Len(p) : p[j] # SEP
  ELSE 0

\* posixpath.split: head keeps no trailing '/' unless it is all '/'
PathSplit(p) ==
  LET i == RFindSep(p)
      head == SubSeq(p, 1, i)
      tail == SubSeq(p, i + 1, Len(p))
  IN  IF head # <<>> /\ (\E j \in 1..Len(head) : head[j] # SEP)
      THEN <<RStrip(head, SEP), tail>>
      ELSE <<head, tail>>

Dirname(p) == PathSplit(p)[1]

Basename(p) == PathSplit(p)[2]

\* '{}/index.html'.format(d) if d else 'index.html'
IndexKey(d) == IF d # <<>> THEN d \o <<SEP, IDX>> ELSE <<IDX>>

\* the path formatted without the special case for the root
InvalidationPathNoRoot(d) == <<SEP>> \o d \o <<SEP>>

\* '/{}/'.format(d) if d else '/'
InvalidationPath(d) == IF d # <<>> THEN <<SEP>> \o d \o <<SEP>> ELSE <<SEP>>

\* --------------------------------------------------------- the key universe
\* names a directory component can have, and names an object can have
DirNames == {<<"a">>}

DottedNames == {<<"a", ".">>}

BaseNames == {<<"a">>, <<IDX>>} \cup DottedNames

Join(d, n) == IF d = <<>> THEN n ELSE d \o <<SEP>> \o n

RECURSIVE DirsOfDepth(_)
DirsOfDepth(n) ==
  IF n = 0 THEN {<<>>}
  ELSE {Join(d, c) : d \in DirsOfDepth(n - 1), c \in DirNames}

\* keys the store accepts although they start with the separator
LeadingSlashKeys == {<<SEP, "a">>, <<SEP, IDX>>}

\* a key with a doubled separator: os.path.split files it next to 'a/a'
DoubledSlashKeys == {<<"a", SEP, SEP, "a">>}

\* object keys: '/'-separated components, none of them empty, and the keys
\* with a leading or a doubled slash
\* (the name 'a.', which sorts between 'a' and 'a/', only at the top level)
AllKeys ==
  {Join(d, b) : d \in UNION {DirsOfDepth(n) : n \in 0..MaxDepth},
                b \in BaseNames \ DottedNames}
    \cup DottedNames \cup LeadingSlashKeys \cup DoubledSlashKeys

\* values of the prefix argument on the command line (None is the empty string)
ArgPrefixes == {<<>>, <<"a">>, <<"a", SEP>>}

\* values of --cfdistribution (absent is the empty string)
ArgDistributions == {<<>>, <<"E1">>}

Sizes == {3, 4}

\* the size of the object stored under a key: the two objects that
\* os.path.split gives the same directory and base name differ in size
SizeOf(k) == IF k \in DoubledSlashKeys THEN 4 ELSE 3

Dates == {60}

\* Python's None, for a field that otherwise holds <<value>>
None == <<>>

Range(s) == {s[i] : i \in 1..Len(s)}

\* ------------------------------------------------- dict (insertion ordered)
EmptyDict == [keys |-> <<>>, val |-> <<>>]

DictHas(d, k) == k \in DOMAIN d.val

\* d[k] = v : a new key goes last, an existing key keeps its place
DictPut(d, k, v) ==
  [keys |-> IF DictHas(d, k) THEN d.keys ELSE Append(d.keys, k),
   val |-> (k :> v) @@ d.val]

\* defaultdict(list)[k]
DictGetList(d, k) == IF DictHas(d, k) THEN d.val[k] ELSE <<>>

\* ------------------------------------------------------------ tree builder
\* the splitter reading files[dn] for a listing object too, which makes the
\* defaultdict create the key
RECURSIVE SplitFromTouching(_, _, _)
SplitFromTouching(objs, indexes, files) ==
  IF objs = <<>> THEN <<indexes, files>>
  ELSE LET o == Head(objs)
           dn == PathSplit(o.Key)[1]
           fn == PathSplit(o.Key)[2]
       IN  IF fn = <<IDX>>
           THEN SplitFromTouching(Tail(objs), DictPut(indexes, dn, o),
                                  DictPut(files, dn, DictGetList(files, dn)))
           ELSE SplitFromTouching(Tail(objs), indexes,
                                  DictPut(files, dn, Append(DictGetList(files, dn), o)))

RECURSIVE SplitFrom(_, _, _)
SplitFrom(objs, indexes, files) ==
  IF objs = <<>> THEN <<indexes, files>>
  ELSE LET o == Head(objs)
           dn == PathSplit(o.Key)[1]
           fn == PathSplit(o.Key)[2]
       IN  IF fn = <<IDX>>
           THEN SplitFrom(Tail(objs), DictPut(indexes, dn, o), files)
           ELSE SplitFrom(Tail(objs), indexes,
                          DictPut(files, dn, Append(DictGetList(files, dn), o)))

\* objs is everything get_complete_bucket yielded, in order
split_bucket_contents(objs) == SplitFrom(objs, EmptyDict, EmptyDict)

\* ------------------------------------------------------ directory completer
\* the ascent given up one level early, below the top-level directory
WhileCondBelowTop(dn, prefix) == dn # <<>> /\ dn # prefix /\ Dirname(dn) # <<>>

\* while dn and dn != prefix
WhileCond(dn, prefix) == dn # <<>> /\ dn # prefix

\* if dn not in files and dn not in add: add.append(dn)
AddIfMissing(add, dn, files) ==
  IF ~DictHas(files, dn) /\ dn \notin Range(add) THEN Append(add, dn) ELSE add

\* the while loop as a whole, for an ascent that ends
RECURSIVE Ascend(_, _, _, _)
Ascend(dn, add, files, prefix) ==
  IF WhileCond(dn, prefix)
  THEN Ascend(Dirname(dn), AddIfMissing(add, dn, files), files, prefix)
  ELSE add

\* the for loop over files.keys()
RECURSIVE ScanKeys(_, _, _, _)
ScanKeys(keys, add, files, prefix) ==
  IF keys = <<>> THEN add
  ELSE ScanKeys(Tail(keys), Ascend(Dirname(Head(keys)), add, files, prefix),
                files, prefix)

\* if prefix not in files: add.append(prefix)
WithPrefix(add, files, prefix) ==
  IF ~DictHas(files, prefix) THEN Append(add, prefix) ELSE add

\* the list of directories to add, in order
MissingParents(files, prefix) ==
  WithPrefix(ScanKeys(files.keys, <<>>, files, prefix), files, prefix)

RECURSIVE PutEmpty(_, _)
PutEmpty(files, add) ==
  IF add = <<>> THEN files
  ELSE PutEmpty(DictPut(files, Head(add), <<>>), Tail(add))

fill_missing_parent_directories(files, prefix) ==
  PutEmpty(files, MissingParents(files, prefix))

\* -------------------------------------------------------- listing generator
\* entries are <<name, date, size>>; a subdirectory has date = size = None
FileEntries(objs) ==
  [i \in 1..Len(objs) |->
     <<Basename(objs[i].Key), <<objs[i].LastModified>>, <<objs[i].Size>> >>]

\* every key whose dirname is the directory, the root itself among them
DirEntriesWithRoot(keys, directory) ==
  LET sel == SelectSeq(keys, LAMBDA k : Dirname(k) = directory)
  IN  [i \in 1..Len(sel) |-> <<Basename(sel[i]), None, None>>]

RECURSIVE DirEntries(_, _)
DirEntries(keys, directory) ==
  IF keys = <<>> THEN <<>>
  ELSE (IF Head(keys) # <<>> /\ Dirname(Head(keys)) = directory
        THEN << <<Basename(Head(keys)), None, None>> >> ELSE <<>>)
       \o DirEntries(Tail(keys), directory)

\* key=lambda x: x[0]
SortKey(x) == x[1]

\* the entries written in the order they were collected
Unsorted(entries) == entries

\* sorted(): stable, so an entry goes after every entry whose key is <= its own
RECURSIVE Sorted(_)
Sorted(entries) ==
  IF entries = <<>> THEN <<>>
  ELSE LET s == Sorted(SubSeq(entries, 1, Len(entries) - 1))
           e == entries[Len(entries)]
           n == Cardinality({i \in 1..Len(s) : StrLeq(SortKey(s[i]), SortKey(e))})
       IN  SubSeq(s, 1, n) \o <<e>> \o SubSeq(s, n + 1, Len(s))

\* date.strftime("%d-%b-%Y %H:%M"): a timestamp in seconds, shown to the minute
Strftime(date) == <<date \div 60>>

\* one <tr>: the link text, the date column and the size column
Row(e) ==
  [name |-> e[1] \o (IF e[3] = None THEN <<SEP>> ELSE <<>>),
   date |-> IF e[2] # None THEN Strftime(e[2][1]) ELSE <<>>,
   size |-> IF e[3] # None THEN <<e[3][1]>> ELSE <<>>]

\* the HTML text, kept as its variable parts: the directory in the title and
\* heading, whether the "../" row is there, and the rows in order
generate_index_for(files, directory) ==
  LET entries == FileEntries(files.val[directory])
                   \o DirEntries(files.keys, directory)
      sorted == Sorted(entries)
  IN  [title |-> directory,
       parent |-> directory # <<>>,
       rows |-> [i \in 1..Len(sorted) |-> Row(sorted[i])]]

\* hashlib.md5(idx).hexdigest(): one word per body
Md5Hex(body) == <<ToString(body)>>

\* the digest of a listing that no directory renders to
StaleDigest == <<"d41d8cd9">>

\* ------------------------------------------------------------- the store
\* the entity tag the store keeps for a body with this digest
ETagOf(md5h) == <<QUOTE>> \o md5h \o <<QUOTE>>

RECURSIVE SortedKeys(_)
SortedKeys(S) ==
  IF S = {} THEN <<>>
  ELSE LET m == CHOOSE k \in S : \A o \in S : StrLeq(k, o)
       IN  <<m>> \o SortedKeys(S \ {m})

\* list_objects_v2: the keys that start with pfx and come after the key `after`
\* (<<>> for a first request), in key order, at most PageSize of them
ListObjectsV2(bkt, pfx, after) ==
  LET match == {k \in DOMAIN bkt :
                  StartsWith(k, pfx) /\ (after = <<>> \/ StrLess(after, k))}
      keys == SortedKeys(match)
      n == IF Len(keys) < PageSize THEN Len(keys) ELSE PageSize
  IN  [Contents |-> [i \in 1..n |->
                       [Key |-> keys[i], ETag |-> bkt[keys[i]].ETag,
                        LastModified |-> bkt[keys[i]].LastModified,
                        Size |-> bkt[keys[i]].Size]],
       IsTruncated |-> Len(keys) > n,
       NextContinuationToken |-> IF n > 0 THEN keys[n] ELSE <<>>]

\* s3.put_object on the bucket
PutObject(bkt, key, md5h) ==
  (key :> [ETag |-> ETagOf(md5h), LastModified |-> 60, Size |-> 0]) @@ bkt

\* s3.delete_object on the bucket: a key that is not there is no error
DeleteObject(bkt, key) == [k \in (DOMAIN bkt) \ {key} |-> bkt[k]]

\* ---------------------------------------------------------------- state
VARIABLES
  bucket,         \* the store: key -> [ETag, LastModified, Size]
  prefix,         \* args.prefix with trailing '/' stripped, '' when absent
  cfdistribution, \* args.cfdistribution, '' when absent
  run,            \* "first" or "second" invocation
  prev,           \* how the invocation before this one ended ("none" at first)
  pc,             \* list, fill, delete, put, invalidate, done, nothing, aborted
  token,          \* r['NextContinuationToken'] of the last page, '' before it
  listed,         \* the records get_complete_bucket has yielded so far
  indexes,        \* dict: directory -> its index.html record
  files,          \* dict: directory -> list of its other records
  ki,             \* position of the loop over files.keys() in the completer
  dn,             \* the completer's dn: the ancestor the ascent stands at
  add,            \* the completer's add: the directories to insert, in order
  di,             \* position of the loop over indexes.keys()
  fi,             \* position of the loop over files.keys()
  invalidations,  \* the set of paths to invalidate
  calls,          \* this run's calls to s3 and cloudfront, in order
  bucket0         \* the store as it was when this run started

vars ==
  <<bucket, prefix, cfdistribution, run, prev, pc, token, listed, indexes,
    files, ki, dn, add, di, fi, invalidations, calls, bucket0>>

\* the locals of fill_missing_parent_directories
fill == <<ki, dn, add>>

config == <<prefix, cfdistribution>>

\* the buckets a first run can find: content objects and listings left by
\* earlier runs, whose stored digest is out of date
InitialBuckets ==
  {b \in UNION {[K -> [ETag : {ETagOf(StaleDigest)}, LastModified : Dates, Size : Sizes]] :
                  K \in {S \in SUBSET AllKeys : Cardinality(S) <= MaxObjects}} :
     \A k \in DOMAIN b : b[k].Size = SizeOf(k)}

\* fresh locals of one invocation
StartRun ==
  /\ pc' = "list"
  /\ token' = <<>>
  /\ listed' = <<>>
  /\ indexes' = EmptyDict
  /\ files' = EmptyDict
  /\ ki' = 1
  /\ dn' = <<>>
  /\ add' = <<>>
  /\ di' = 1
  /\ fi' = 1
  /\ invalidations' = {}
  /\ calls' = <<>>

Init ==
  /\ bucket \in InitialBuckets
  /\ prefix \in {RStrip(p, SEP) : p \in ArgPrefixes}
  /\ cfdistribution \in ArgDistributions
  /\ run = "first"
  /\ prev = "none"
  /\ pc = "list"
  /\ token = <<>>
  /\ listed = <<>>
  /\ indexes = EmptyDict
  /\ files = EmptyDict
  /\ ki = 1
  /\ dn = <<>>
  /\ add = <<>>
  /\ di = 1
  /\ fi = 1
  /\ invalidations = {}
  /\ calls = <<>>
  /\ bucket0 = bucket

Call(op, arg, ok) == [op |-> op, arg |-> arg, ok |-> ok]

\* an exception that is caught and ignored
RaiseSwallowed(op, arg) ==
  /\ pc' = pc
  /\ calls' = Append(calls, Call(op, arg, FALSE))

\* an exception from a collaborator ends the process
Raise(op, arg) ==
  /\ pc' = "aborted"
  /\ calls' = Append(calls, Call(op, arg, FALSE))

\* The response to the request get_complete_bucket makes next.  The first
\* request carries Prefix (when there is one); a continuation carries only the
\* token, and the source does not show whether the store then still applies
\* the prefix of the listing the token came from: scoped says whether it does.
NextPage(scoped) ==
  IF token = <<>> THEN ListObjectsV2(bucket, prefix, <<>>)
  ELSE ListObjectsV2(bucket, IF scoped THEN prefix ELSE <<>>, token)

\* the first page taken for the whole listing
LastPageAlways(r) == TRUE

\* 'Contents' not in r, or not r['IsTruncated']
LastPage(r) == r.Contents = <<>> \/ ~r.IsTruncated

\* the empty check left out
NothingToDoNever(idx, fls) == FALSE

\* if not files: print("No files found."); sys.exit(0)
NothingToDo(idx, fls) == fls.keys = <<>>

\* where the run stands once a loop position is reached
AfterList(idx) == IF idx.keys = <<>> THEN "put" ELSE "delete"

\* One list_objects_v2 call and the records it yields; after the last page,
\* the split, the empty check and the entry into the directory completer.
ListPage ==
  /\ pc = "list"
  /\ \E ok, scoped \in BOOLEAN :
       IF ~ok
       THEN /\ Raise("List", token)
            /\ UNCHANGED <<bucket, config, run, prev, token, listed, indexes,
                           files, fill, di, fi, invalidations, bucket0>>
       ELSE LET r == NextPage(scoped)
                all == listed \o r.Contents
                sp == split_bucket_contents(all)
            IN  /\ listed' = all
                /\ calls' = Append(calls, Call("List", token, TRUE))
                /\ token' = r.NextContinuationToken
                /\ IF ~LastPage(r)
                   THEN UNCHANGED <<pc, indexes, files, dn>>
                   ELSE /\ indexes' = sp[1]
                        /\ files' = sp[2]
                        /\ IF NothingToDo(sp[1], sp[2])
                           THEN /\ pc' = "nothing"
                                /\ UNCHANGED dn
                           ELSE /\ pc' = "fill"
                                /\ dn' = IF sp[2].keys = <<>> THEN <<>>
                                         ELSE Dirname(sp[2].keys[1])
                /\ UNCHANGED <<bucket, config, run, prev, ki, add, di, fi,
                               invalidations, bucket0>>

\* One step of fill_missing_parent_directories: an iteration of the while
\* loop, or the move to the next key of the for loop, or, after the last
\* key, the rest of the function.
FillStep ==
  /\ pc = "fill"
  /\ IF WhileCond(dn, prefix)
     THEN /\ add' = AddIfMissing(add, dn, files)
          /\ dn' = Dirname(dn)
          /\ UNCHANGED <<pc, ki, files>>
     ELSE IF ki < Len(files.keys)
          THEN /\ ki' = ki + 1
               /\ dn' = Dirname(files.keys[ki + 1])
               /\ UNCHANGED <<pc, add, files>>
          ELSE /\ add' = WithPrefix(add, files, prefix)
               /\ files' = PutEmpty(files, WithPrefix(add, files, prefix))
               /\ pc' = AfterList(indexes)
               /\ UNCHANGED <<ki, dn>>
  /\ UNCHANGED <<bucket, config, run, prev, token, listed, indexes, di, fi,
                 invalidations, calls, bucket0>>

\* every listing record is taken for an extra one
IsExtraAlways(i, fls) == TRUE

\* if i not in files
IsExtra(i, fls) == ~DictHas(fls, i)

\* One iteration of "for i in indexes.keys()".
DeleteExtra ==
  /\ pc = "delete"
  /\ LET i == indexes.keys[di]
         key == IndexKey(i)
         next == IF di = Len(indexes.keys) THEN "put" ELSE "delete"
     IN  IF ~IsExtra(i, files)
         THEN /\ di' = di + 1
              /\ pc' = next
              /\ UNCHANGED <<bucket, invalidations, calls>>
         ELSE \E ok \in BOOLEAN :
                IF ~ok
                THEN /\ Raise("Delete", key)
                     /\ UNCHANGED <<bucket, invalidations, di>>
                ELSE /\ bucket' = DeleteObject(bucket, key)
                     /\ calls' = Append(calls, Call("Delete", key, TRUE))
                     /\ invalidations' = invalidations \cup {InvalidationPath(i)}
                     /\ di' = di + 1
                     /\ pc' = next
  /\ UNCHANGED <<config, run, prev, token, listed, indexes, files, fill, fi,
                 bucket0>>

\* the entity tag compared with its quotes still on
NeedsPutUnstripped(idx, d, md5h) ==
  \/ ~DictHas(idx, d)
  \/ idx.val[d].ETag # md5h

\* d not in indexes, or indexes[d]['ETag'].strip('"') != md5h
NeedsPut(idx, d, md5h) ==
  \/ ~DictHas(idx, d)
  \/ Strip(idx.val[d].ETag, QUOTE) # md5h

\* One iteration of "for d in files.keys()".
PutIndex ==
  /\ pc = "put"
  /\ LET d == files.keys[fi]
         md5h == Md5Hex(generate_index_for(files, d))
         key == IndexKey(d)
         next == IF fi = Len(files.keys) THEN "invalidate" ELSE "put"
     IN  IF ~NeedsPut(indexes, d, md5h)
         THEN /\ fi' = fi + 1
              /\ pc' = next
              /\ UNCHANGED <<bucket, invalidations, calls>>
         ELSE \E ok \in BOOLEAN :
                IF ~ok
                THEN /\ Raise("Put", key)
                     /\ UNCHANGED <<bucket, invalidations, fi>>
                ELSE /\ bucket' = PutObject(bucket, key, md5h)
                     /\ calls' = Append(calls, Call("Put", key, TRUE))
                     /\ invalidations' = invalidations \cup {InvalidationPath(d)}
                     /\ fi' = fi + 1
                     /\ pc' = next
  /\ UNCHANGED <<config, run, prev, token, listed, indexes, files, fill, di,
                 bucket0>>

\* the distribution argument not looked at
ShouldInvalidateAnyway(inv, dist) == inv # {}

\* if invalidations and args.cfdistribution
ShouldInvalidate(inv, dist) == inv # {} /\ dist # <<>>

\* The statement after the loops: at most one create_invalidation.
Invalidate ==
  /\ pc = "invalidate"
  /\ IF ~ShouldInvalidate(invalidations, cfdistribution)
     THEN /\ pc' = "done"
          /\ UNCHANGED calls
     ELSE \E ok \in BOOLEAN :
            IF ~ok
            THEN Raise("Invalidate", invalidations)
            ELSE /\ calls' = Append(calls, Call("Invalidate", invalidations, TRUE))
                 /\ pc' = "done"
  /\ UNCHANGED <<bucket, config, run, prev, token, listed, indexes, files,
                 fill, di, fi, invalidations, bucket0>>

\* The program is started once more on the bucket the first run left.  (A
\* first run that aborted before it changed the store would only be repeated.)
Rerun ==
  /\ run = "first"
  /\ pc \in {"done", "nothing"} \/ (pc = "aborted" /\ bucket # bucket0)
  /\ run' = "second"
  /\ prev' = pc
  /\ bucket0' = bucket
  /\ StartRun
  /\ UNCHANGED <<bucket, config>>

Next == ListPage \/ FillStep \/ DeleteExtra \/ PutIndex \/ Invalidate \/ Rerun

Spec == Init /\ [][Next]_vars

\* =================================================================== claims
\* positions in this run's call log of the calls to one collaborator operation
CallsOf(op) == {k \in 1..Len(calls) : calls[k].op = op}

\* positions of the successful calls of op with this argument
Issued(op, arg) == {k \in CallsOf(op) : calls[k].ok /\ calls[k].arg = arg}

\* the run ended without an exception
RunCompleted == pc \in {"done", "nothing"}

\* the listing key and the cache path of a directory, as the design words them
ListingKeyOf(d) == IF d = <<>> THEN <<"index.html">> ELSE d \o <<"/", "index.html">>

CachePathOf(d) == IF d = <<>> THEN <<"/">> ELSE <<"/">> \o d \o <<"/">>

\* the content mapping of what was listed, after directory completion
CompletedMapping ==
  fill_missing_parent_directories(split_bucket_contents(listed)[2], prefix)

\* C1: in a run that ends without failure, every directory that has a listing
\* record but is no key of the completed content mapping got exactly one Delete
\* at its listing key, and its path is in the invalidation set.
C1_ExtraListingsDeleted ==
  RunCompleted =>
    \A i \in Range(indexes.keys) :
      ~DictHas(CompletedMapping, i) =>
        /\ Cardinality(Issued("Delete", ListingKeyOf(i))) = 1
        /\ CachePathOf(i) \in invalidations

\* C2: a second run on the bucket left by a first run that completed issues
\* no Put, no Delete and no Invalidate and keeps the invalidation set empty.
C2_SecondRunIdle ==
  (run = "second" /\ prev \in {"done", "nothing"}) =>
    /\ CallsOf("Put") \cup CallsOf("Delete") \cup CallsOf("Invalidate") = {}
    /\ invalidations = {}

\* the directories the create/update/skip loop has already decided
Decided == {files.keys[j] : j \in 1..(fi - 1)}

\* an entity tag as the store reports it: the digest between two quotes
Quoted(md5h) == <<"\"">> \o md5h \o <<"\"">>

FreshDigest(d) == Md5Hex(generate_index_for(files, d))

\* d has a listing record whose stored digest equals the fresh one
Unchanged(d) ==
  DictHas(indexes, d) /\ indexes.val[d].ETag = Quoted(FreshDigest(d))

\* C3: for every directory the loop has decided, a Put at its listing key
\* (storing the fresh body) was issued exactly when it has no listing record or
\* the record's digest differs from the fresh one; otherwise no Put was issued
\* and its path is not in the invalidation set.
C3_PutIffMissingOrChanged ==
  /\ \A d \in Decided :
       IF Unchanged(d)
       THEN /\ Issued("Put", ListingKeyOf(d)) = {}
            /\ CachePathOf(d) \notin invalidations
       ELSE /\ Cardinality(Issued("Put", ListingKeyOf(d))) = 1
            /\ ListingKeyOf(d) \in DOMAIN bucket
            /\ bucket[ListingKeyOf(d)].ETag = Quoted(FreshDigest(d))
            /\ CachePathOf(d) \in invalidations
  /\ \A k \in CallsOf("Put") :
       \E d \in Range(files.keys) : calls[k].arg = ListingKeyOf(d)

\* a run that skips one directory, creates one listing and updates another
C3_Witness ==
  \E d1, d2, d3 \in Decided :
    /\ Unchanged(d1)
    /\ ~DictHas(indexes, d2)
    /\ DictHas(indexes, d3) /\ ~Unchanged(d3)

\* the directories strictly above d: what is in front of each '/', and the root
ProperAncestors(d) ==
  {SubSeq(d, 1, i - 1) : i \in {j \in 1..Len(d) : d[j] = "/"}}
    \cup (IF d = <<>> THEN {} ELSE {<<>>})

\* a is the prefix directory or lies below it
AtOrBelowPrefix(a) ==
  prefix = <<>> \/ a = prefix \/ StartsWith(a, prefix \o <<"/">>)

\* the content mapping has been completed in this run
Completed == files.keys # <<>> /\ pc # "fill"

\* C4: once fill_missing_parent_directories has run, the prefix is a key of
\* the mapping and so is every proper ancestor, from the prefix downwards, of
\* every key.
C4_AncestorsPresent ==
  Completed =>
    /\ DictHas(files, prefix)
    /\ \A d \in Range(files.keys) :
         \A a \in ProperAncestors(d) : AtOrBelowPrefix(a) => DictHas(files, a)

\* two levels of directories without content of their own were synthesized
C4_Witness ==
  /\ Completed
  /\ \E d \in Range(files.keys) :
       \E a, b \in ProperAncestors(d) :
         /\ a # b /\ a # prefix /\ b # prefix
         /\ AtOrBelowPrefix(a) /\ AtOrBelowPrefix(b)
         /\ ~DictHas(split_bucket_contents(listed)[2], a)
         /\ ~DictHas(split_bucket_contents(listed)[2], b)

\* the rows of the listing of d
RowsOf(d) == generate_index_for(files, d).rows

IsDirRow(row) == row.size = <<>>

\* the base name of a row: the link text without the '/' of a subdirectory
BaseNameOf(row) ==
  IF IsDirRow(row) THEN SubSeq(row.name, 1, Len(row.name) - 1) ELSE row.name

\* C5 as claimed: the rows of every listing are in ascending order of their
\* display names (a subdirectory's display name ends in '/').
C5_RowsAscendByDisplayName ==
  Completed =>
    \A d \in Range(files.keys) :
      LET rows == RowsOf(d)
      IN  \A i, j \in 1..Len(rows) : i < j => StrLeq(rows[i].name, rows[j].name)

\* C5 amended: every listing has one row per file and per child directory,
\* merged in ascending order of base names (the name before '/' is appended);
\* of two rows with the same base name the file comes first.
C5_RowsAscendByBaseName ==
  Completed =>
    \A d \in Range(files.keys) :
      LET rows == RowsOf(d)
      IN  /\ Len(rows) =
               Len(files.val[d])
               + Cardinality({c \in Range(files.keys) : c # <<>> /\ Dirname(c) = d})
          /\ \A i, j \in 1..Len(rows) :
               i < j =>
                 /\ StrLeq(BaseNameOf(rows[i]), BaseNameOf(rows[j]))
                 /\ BaseNameOf(rows[i]) = BaseNameOf(rows[j])
                      => (~IsDirRow(rows[i]) \/ IsDirRow(rows[j]))

\* a listing where a subdirectory row stands between two file rows
C5_Witness ==
  /\ Completed
  /\ \E d \in Range(files.keys) :
       LET rows == RowsOf(d)
       IN  /\ Len(rows) = 3
           /\ ~IsDirRow(rows[1])
           /\ IsDirRow(rows[2])
           /\ ~IsDirRow(rows[3])

\* the directories whose listing this run deletes, and those it writes
DeletedDirs == {i \in Range(indexes.keys) : ~DictHas(files, i)}

WrittenDirs == {d \in Range(files.keys) : ~Unchanged(d)}

\* both reconcile loops have run to their end
ReconcileDone == Completed /\ fi = Len(files.keys) + 1

\* C6: when both reconcile loops have ended, the invalidation set is exactly
\* the set of paths of the deleted, created and updated directories, one path
\* for each of them and for each successful Delete and Put.
C6_InvalidationsAreOutcomes ==
  ReconcileDone =>
    /\ invalidations = {CachePathOf(d) : d \in DeletedDirs \cup WrittenDirs}
    /\ Cardinality(invalidations)
         = Cardinality(DeletedDirs) + Cardinality(WrittenDirs)
    /\ Cardinality(invalidations)
         = Cardinality({k \in CallsOf("Put") \cup CallsOf("Delete") : calls[k].ok})

\* a run that deleted a listing, created the root's and updated another
C6_Witness ==
  /\ ReconcileDone
  /\ DeletedDirs # {}
  /\ <<>> \in WrittenDirs /\ ~DictHas(indexes, <<>>)
  /\ \E d \in WrittenDirs : DictHas(indexes, d)

\* C7: Invalidate is called at most once and is the last call of the run; its
\* request carries the whole invalidation set; and once reconciliation has
\* ended the call is made exactly when the set is non-empty and a
\* distribution is configured.
C7_InvalidateOnceLast ==
  /\ Cardinality(CallsOf("Invalidate")) <= 1
  /\ \A k \in CallsOf("Invalidate") :
       /\ k = Len(calls)
       /\ calls[k].arg = invalidations
       /\ ReconcileDone
       /\ pc \in {"done", "aborted"}
  /\ (ReconcileDone /\ pc \in {"done", "aborted"}) =>
       (CallsOf("Invalidate") # {}
          <=> (invalidations # {} /\ cfdistribution # <<>>))

\* a finished run whose single request carried two paths
C7_Witness ==
  /\ pc = "done"
  /\ CallsOf("Invalidate") # {}
  /\ Cardinality(invalidations) >= 2
  /\ CallsOf("Delete") # {}
  /\ CallsOf("Put") # {}

\* the enumeration of this run has ended without an exception
Drained == pc # "list" /\ \A k \in CallsOf("List") : calls[k].ok

\* C8: when the enumeration ends having yielded no record, the run ends as
\* "nothing to do" with no Put, Delete or Invalidate and the store untouched.
C8_EmptyListingIsNoOp ==
  (Drained /\ listed = <<>>) =>
    /\ pc = "nothing"
    /\ \A k \in 1..Len(calls) : calls[k].op = "List"
    /\ bucket = bucket0

\* the prefix matches nothing in a bucket that is not empty
C8_Witness ==
  /\ pc = "nothing"
  /\ listed = <<>>
  /\ calls # <<>>
  /\ bucket # <<>>

\* what the successful Put and Delete calls of this run leave at a key
LeftAt(key) ==
  IF Issued("Delete", key) # {} THEN <<>>
  ELSE IF Issued("Put", key) # {}
       THEN <<Quoted(FreshDigest(CHOOSE d \in Range(files.keys) : ListingKeyOf(d) = key))>>
       ELSE IF key \in DOMAIN bucket0 THEN <<bucket0[key].ETag>> ELSE <<>>

\* C9: a failed call is the last call of its run and the run is aborted; the
\* store then holds exactly what the successful calls before it left.
C9_FailFastNoRollback ==
  /\ \A k \in 1..Len(calls) :
       ~calls[k].ok => (k = Len(calls) /\ pc = "aborted")
  /\ pc = "aborted" =>
       /\ calls # <<>> /\ ~calls[Len(calls)].ok
       /\ \A key \in DOMAIN bucket \cup DOMAIN bucket0 :
            LeftAt(key) = (IF key \in DOMAIN bucket THEN <<bucket[key].ETag>> ELSE <<>>)

\* a Put failed after a Delete and a Put had succeeded
C9_Witness ==
  /\ pc = "aborted"
  /\ calls[Len(calls)].op = "Put"
  /\ \E j, k \in 1..Len(calls) :
       /\ calls[j].op = "Delete" /\ calls[j].ok
       /\ calls[k].op = "Put" /\ calls[k].ok

\* C10: every Put, Delete and Invalidate comes after all list calls, all of
\* which succeeded and which together delivered every object under the
\* prefix; a failed list call leaves the store untouched and the run aborted.
C10_MutationsAfterEnumeration ==
  /\ \A k \in 1..Len(calls) :
       calls[k].op # "List" =>
         \A j \in CallsOf("List") : j < k /\ calls[j].ok
  /\ (\E k \in CallsOf("List") : ~calls[k].ok) =>
       /\ pc = "aborted"
       /\ bucket = bucket0
       /\ CallsOf("Put") \cup CallsOf("Delete") \cup CallsOf("Invalidate") = {}
  /\ Drained =>
       \A key \in DOMAIN bucket0 :
         StartsWith(key, prefix) => \E i \in 1..Len(listed) : listed[i].Key = key

\* the second page of a listing failed
C10_Witness ==
  /\ pc = "aborted"
  /\ Len(calls) >= 2
  /\ calls[Len(calls)].op = "List"
  /\ listed # <<>>

\* the run has come to the create_invalidation call, or has made it
InvalidateReached ==
  \/ pc = "invalidate" /\ ShouldInvalidate(invalidations, cfdistribution)
  \/ CallsOf("Invalidate") # {}

\* the key of the listing object that put d into the listing index
ListedIndexKey(d) ==
  listed[CHOOSE i \in 1..Len(listed) :
           /\ PathSplit(listed[i].Key)[1] = d
           /\ PathSplit(listed[i].Key)[2] = <<IDX>>].Key

\* C11: whenever the Invalidate call is reached, the listing object of every
\* directory of the completed mapping carries the digest of its fresh
\* rendering, and no listing object is left for a directory that is in the
\* listing index but not in the mapping.
C11_OriginConsistentAtInvalidate ==
  InvalidateReached =>
    /\ \A d \in Range(files.keys) :
         /\ ListingKeyOf(d) \in DOMAIN bucket
         /\ bucket[ListingKeyOf(d)].ETag = Quoted(FreshDigest(d))
    /\ \A i \in Range(indexes.keys) :
         ~DictHas(files, i) => ListedIndexKey(i) \notin DOMAIN bucket

\* the directories this run knows: keys of the mapping and of the listing index
KnownDirs == Range(files.keys) \cup Range(indexes.keys)

\* the path of the directory whose listing key is key was handed over in a
\* create_invalidation request of this run
HandedOver(key) ==
  \E j \in CallsOf("Invalidate") :
    \E d \in KnownDirs : ListingKeyOf(d) = key /\ CachePathOf(d) \in calls[j].arg

\* C12: with a distribution configured, when a run has ended (completed or
\* aborted) the path of every listing it wrote or deleted was handed to the
\* cache in an invalidation request of that run.
C12_MutationsInvalidated ==
  (cfdistribution # <<>> /\ pc \in {"done", "aborted"}) =>
    \A k \in CallsOf("Put") \cup CallsOf("Delete") :
      calls[k].ok => HandedOver(calls[k].arg)

\* the directory keys of the mapping, other than d, whose parent is d
ChildDirs(d) == {c \in Range(files.keys) : c # d /\ Dirname(c) = d}

\* C13: the listing of every directory of the completed mapping has exactly
\* one file row for each content object filed under the directory, exactly one
\* subdirectory row (base name and '/') for each other directory key whose
\* parent is the directory, and no further row.
C13_RowsAreFilesAndChildDirs ==
  Completed =>
    \A d \in Range(files.keys) :
      LET rows == RowsOf(d)
          objs == files.val[d]
      IN  /\ \A o \in Range(objs) :
               /\ Dirname(o.Key) = d
               /\ Cardinality({i \in 1..Len(rows) :
                     /\ ~IsDirRow(rows[i])
                     /\ rows[i].name = Basename(o.Key)
                     /\ rows[i].size = <<o.Size>>}) = 1
          /\ \A c \in ChildDirs(d) :
               Cardinality({i \in 1..Len(rows) :
                 IsDirRow(rows[i]) /\ rows[i].name = Basename(c) \o <<"/">>}) = 1
          /\ \A i \in 1..Len(rows) :
               IF IsDirRow(rows[i])
               THEN \E c \in ChildDirs(d) : rows[i].name = Basename(c) \o <<"/">>
               ELSE \E o \in Range(objs) : rows[i].name = Basename(o.Key)
          /\ Len(rows) = Len(objs) + Cardinality(ChildDirs(d))

\* a directory that holds no object of its own and is listed with nothing but
\* the row of its one subdirectory, next to a directory that lists a file
C13_Witness ==
  /\ Completed
  /\ \E d \in Range(files.keys) :
       /\ d # <<>>
       /\ files.val[d] = <<>>
       /\ Len(RowsOf(d)) = 1
       /\ IsDirRow(RowsOf(d)[1])
  /\ \E d \in Range(files.keys) :
       \E i, j \in 1..Len(RowsOf(d)) : IsDirRow(RowsOf(d)[i]) /\ ~IsDirRow(RowsOf(d)[j])

\* C14: the ascent of the directory completer ends: at every iteration of the
\* while loop the ancestor it moves to is shorter than the one it stands at,
\* so the loop reaches the prefix or the empty string.
C14_AscentTerminates ==
  (pc = "fill" /\ WhileCond(dn, prefix)) => Len(Dirname(dn)) < Len(dn)

\* C15: within a run no listing key is the argument of both a Delete and a
\* Put: the directories whose listing is deleted and those whose listing is
\* written are disjoint.
C15_DeleteAndPutDisjoint ==
  /\ \A j \in CallsOf("Delete") :
       \A k \in CallsOf("Put") : calls[j].arg # calls[k].arg
  /\ \A j \in CallsOf("Delete") :
       \E i \in Range(indexes.keys) :
         calls[j].arg = IndexKey(i) /\ i \notin Range(files.keys)

\* both loops have ended after one listing was deleted and two were written
C15_Witness ==
  /\ ReconcileDone
  /\ \E j \in CallsOf("Delete") : calls[j].ok
  /\ Cardinality({k \in CallsOf("Put") : calls[k].ok}) = 2

\* the orders in which the records of this run could have been enumerated
Orders ==
  {f \in [1..Len(listed) -> 1..Len(listed)] :
     \A i, j \in 1..Len(listed) : f[i] = f[j] => i = j}

\* the completed mapping of the same records enumerated in the order f
MappingInOrder(f) ==
  fill_missing_parent_directories(
    split_bucket_contents([i \in 1..Len(listed) |-> listed[f[i]]])[2], prefix)

\* the mapping has just been completed and no loop has started
JustCompleted == Completed /\ pc \in {"delete", "put"} /\ di = 1 /\ fi = 1

\* C16: the body rendered for a directory is the same whatever the order in
\* which the records were enumerated and the directory keys inserted: every
\* order of the same records gives the same directories and, for each of
\* them, the same body.
C16_RenderingOrderIndependent ==
  JustCompleted =>
    \A f \in Orders :
      LET other == MappingInOrder(f)
      IN  /\ Range(other.keys) = Range(files.keys)
          /\ \A d \in Range(files.keys) :
               generate_index_for(other, d) = generate_index_for(files, d)

\* C17: every directory the completer inserted, other than the prefix, has a
\* child directory in the completed mapping; and the prefix is the only key of
\* the mapping that may have neither an object nor a child directory.
C17_NoEmptyLeafSynthesized ==
  Completed =>
    /\ \A d \in Range(add) :
         /\ DictHas(files, d) /\ files.val[d] = <<>>
         /\ d # prefix => ChildDirs(d) # {}
    /\ \A d \in Range(files.keys) :
         (files.val[d] = <<>> /\ ChildDirs(d) = {}) => d = prefix

\* the completer inserted a directory and the parent of that directory, none
\* of them the prefix
C17_Witness ==
  /\ Completed
  /\ \E d, c \in Range(add) :
       d # prefix /\ c # prefix /\ c \in ChildDirs(d)

\* C18: every key handed to Put or Delete is a listing key at or below the
\* prefix directory: its base name is 'index.html' and, unless the prefix is
\* empty, it starts with the prefix followed by '/'.
C18_MutationsInsidePrefix ==
  \A k \in CallsOf("Put") \cup CallsOf("Delete") :
    /\ Basename(calls[k].arg) = <<IDX>>
    /\ prefix = <<>> \/ StartsWith(calls[k].arg, prefix \o <<"/">>)

====
